---------------------------- MODULE Spec2Model ----------------------------
(***************************************************************************)
(* Super Planner (src/app.py): the year-by-year projection run_sim, the    *)
(* derived loan values it reads, the optimiser loop and the scenario       *)
(* comparison.                                                             *)
(*                                                                         *)
(* Number representation.  Python floats are carried as integers:          *)
(*   - money in whole dollars, every product rounded down to a dollar;     *)
(*   - fractions that the widgets step by 0.01 (down-payment, occupancy)   *)
(*     in percent points (0.10 is 10);                                     *)
(*   - the two rates the widgets step by 0.1 % (mortgage rate, ETF return) *)
(*     in tenths of a percent (6.9 % is 69);                               *)
(*   - (1+r)**n of pmt in fixed point with FixedOne for 1.0.               *)
(* None is the integer None, outside every widget range.                   *)
(***************************************************************************)
EXTENDS Integers, Sequences, FiniteSets, TLC

VARIABLES
    submitted,  \* the form's submit button fired: lines 90-157 have run
    inp,        \* the widget values (lines 33-72), by their source names
    der,        \* the derived values of lines 91-94
    df,         \* the projection of line 133
    frame,      \* the locals of the run_sim invocation in progress or last returned
    pc,         \* "idle", or the position of that invocation: "sim" (in the loop), "done"
    nohelp,     \* line 153
    withhelp,   \* line 155
    best,       \* the optimiser's best trial (lines 139, 146)
    trials,     \* the trials the optimiser loop has sampled so far, in order
    opt         \* the optimiser's position: "off", "loop", "shown"

vars == <<submitted, inp, der, df, frame, pc, nohelp, withhelp, best, trials, opt>>

---------------------------------------------------------------------------
(* Bounds of the model *)

\* run_sim is stepped for every horizon 1..MaxYears, for the horizon that ends
\* with the year of the sale, and for the default one
MaxYears == 2
\* iterations of the optimiser loop (1000 in the source)
NumTrials == 2

---------------------------------------------------------------------------
(* Program constants *)

None == -1
DefaultYears == 10
BaseIncome == 175000
Raise == 50000
TerCost == 50000
FlipProceeds == 120000
SaleYear == 6
FixedOne == 1000000
NegInf == -1

DP == "Down-Payment"
ETF == "ETF"

Max(a, b) == IF a >= b THEN a ELSE b
Min(a, b) == IF a <= b THEN a ELSE b
Last(seq) == seq[Len(seq)]

---------------------------------------------------------------------------
(* pmt, lines 18-22 *)

\* (1 + r) ** n with r = rate / 12 and rate in tenths of a percent, in fixed
\* point: month by month within a year, then year by year (n = years * 12)
RECURSIVE Months(_, _)
Months(rate, m) ==
    IF m = 0 THEN FixedOne
    ELSE LET f == Months(rate, m - 1)
         IN  f + ((f \div 12) * rate) \div 1000

RECURSIVE Growth(_, _)
Growth(rate, years) ==
    IF years = 0 THEN FixedOne
    ELSE LET f == Growth(rate, years - 1)
         IN  f + ((f \div 2000) * (Months(rate, 12) - FixedOne)) \div 500

pmt(principal, rate, years) ==
    IF principal <= 0 THEN 0
    ELSE LET f == Growth(rate, years)
             \* (1+r)**n / ((1+r)**n - 1), in thousandths
             q == f \div ((f - FixedOne) \div 1000)
         IN  (((principal * rate) \div 12000) * q) \div 1000

---------------------------------------------------------------------------
(* Derived values, lines 91-94, of widget values i *)

dp_dad_of(i) == IF i.dad_use = DP THEN i.dad_amt ELSE 0

LoanNoParens(i, dd) == i.home_price - (i.home_price * i.your_down_pct) \div 100 + dd
loan_of(i, dd) == i.home_price - ((i.home_price * i.your_down_pct) \div 100 + dd)

Derive(i) ==
    LET dd == dp_dad_of(i)
        ln == loan_of(i, dd)
    IN  [dp_user   |-> (i.home_price * i.your_down_pct) \div 100,
         dp_dad    |-> dd,
         loan      |-> ln,
         m_payment |-> pmt(ln, i.rate, i.term) * 12]

---------------------------------------------------------------------------
(* run_sim, lines 96-131.  i: the globals it reads (widget values), d: the  *)
(* derived values, f: its locals.                                          *)

\* lines 96-104: the locals at the top of the loop
EnterKeepsCash(i, d, years, dp_pct, mv, occ) ==
    [years    |-> years,
     dp_pct   |-> IF dp_pct # None THEN dp_pct ELSE i.your_down_pct,
     mv       |-> IF mv # None THEN mv ELSE i.move_year,
     occ      |-> IF occ # None THEN occ ELSE i.air_occ,
     etf      |-> 0,
     cash     |-> frame.cash,
     loan_bal |-> d.loan,
     results  |-> << >>,
     ter_loan |-> IF i.build_ter THEN TerCost ELSE 0,
     ter_pay  |-> IF i.build_ter THEN (TerCost * 10) \div 15 ELSE 0,
     yr       |-> 1]
Enter(i, d, years, dp_pct, mv, occ) ==
    [years    |-> years,
     dp_pct   |-> IF dp_pct # None THEN dp_pct ELSE i.your_down_pct,
     mv       |-> IF mv # None THEN mv ELSE i.move_year,
     occ      |-> IF occ # None THEN occ ELSE i.air_occ,
     etf      |-> 0,
     cash     |-> 0,
     loan_bal |-> d.loan,
     results  |-> << >>,
     ter_loan |-> IF i.build_ter THEN TerCost ELSE 0,
     ter_pay  |-> IF i.build_ter THEN (TerCost * 10) \div 15 ELSE 0,
     yr       |-> 1]

\* lines 106-108
Income(i, f) ==
    IF f.yr >= f.mv THEN i.co_income
    ELSE BaseIncome + (IF f.yr \in {2, 4} THEN Raise ELSE 0)

\* lines 110-114
Airbnb(i, f) ==
    (IF f.yr >= f.mv
        THEN ((i.main_rt + i.guest_rt) * 365 * f.occ * 8) \div 1000 ELSE 0)
    + (IF i.build_ter /\ f.yr >= 2 /\ (i.flip_year = None \/ f.yr < i.flip_year)
        THEN (i.ter_rt * 365 * i.ter_occ * 8) \div 1000 ELSE 0)

\* lines 115-116
CashAfterFlip(i, f) ==
    IF i.build_ter /\ i.flip_year # None /\ f.yr = i.flip_year
    THEN f.cash + FlipProceeds ELSE f.cash

\* line 117, the contribution term
DadTerm(i, d, f) == IF i.dad_use = ETF /\ f.yr = 1 THEN d.dp_dad ELSE 0

\* lines 121-122
PayNoMin(f) == IF f.ter_loan > 0 THEN f.ter_pay ELSE 0
Pay(f) == IF f.ter_loan > 0 THEN Min(f.ter_pay, f.ter_loan) ELSE 0

\* lines 125-126, from the buffer as line 118 left it (0)
CashAfterSale(i, d, f) ==
    IF i.sell_odessa /\ f.yr = SaleYear
    THEN 0 + (i.home_price - (d.loan * 95) \div 100) ELSE 0

\* line 128
InvestNoReserve(surplus, total_income) == Max(0, surplus + total_income \div 10)
Invest(surplus, total_income) == Max(0, surplus - total_income \div 10)

\* line 129
Grow(etf, ret) == etf + (etf * ret) \div 1000

\* line 130
RowYearZeroBased(f) == f.yr - 1
RowYear(f) == f.yr

\* one iteration of the loop, lines 106-130
Step(i, d, f) ==
    LET cash1        == CashAfterFlip(i, f)
        total_income == Income(i, f) + Airbnb(i, f) + cash1 + DadTerm(i, d, f)
        pay          == Pay(f)
        exp          == (i.core_exp + i.utilities + i.subs) * 12 + d.m_payment + pay
        surplus      == Max(0, total_income - exp)
        invest       == Invest(surplus, total_income)
        etf          == Grow(f.etf, i.etf_ret) + invest
    IN  [f EXCEPT !.cash     = CashAfterSale(i, d, f),
                  !.ter_loan = f.ter_loan - pay,
                  !.etf      = etf,
                  !.results  = Append(f.results,
                                  [Year |-> RowYear(f), Income |-> total_income,
                                   Expenses |-> exp, Surplus |-> surplus, ETF |-> etf]),
                  !.yr       = f.yr + 1]

RECURSIVE Loop(_, _, _)
Loop(i, d, f) == IF f.yr > f.years THEN f ELSE Loop(i, d, Step(i, d, f))

\* the DataFrame run_sim returns (line 131)
run_sim(i, d, years, dp_pct, mv, occ) == Loop(i, d, Enter(i, d, years, dp_pct, mv, occ)).results

\* the projection of widget values i: lines 91-94, then run_sim() as line 133 calls it
Project(i) == run_sim(i, Derive(i), DefaultYears, None, None, None)

---------------------------------------------------------------------------
(* Inputs the model draws the widgets' values from *)

DadAmts == {0, 50000}
DadUses == {DP, ETF}
MoveYears == {1, 5}
FlipYears == {2, 5}
\* line 80-88: no file, a file that fails to parse, a file whose 3-month
\* average of negative amounts is the given number of dollars
NoFile == 0
BadFile == -1
Uploads == {NoFile, BadFile, 9000}

\* the widgets' default values, lines 33-70
Defaults ==
    [home_price |-> 630000, your_down_pct |-> 10, sell_odessa |-> FALSE,
     dad_amt |-> 0, dad_use |-> DP, rate |-> 69, term |-> 30,
     move_year |-> 5, co_income |-> 90000, etf_ret |-> 90,
     core_exp |-> 2778, utilities |-> 265, subs |-> 14,
     air_occ |-> 65, main_rt |-> 325, guest_rt |-> 125,
     build_ter |-> TRUE, ter_occ |-> 45, ter_rt |-> 150, flip_year |-> 5]

\* horizons run_sim is called with
Horizons == (1 .. MaxYears) \cup {SaleYear, DefaultYears}
\* overrides run_sim is called with: the optimiser's samples (lines 141-143), or none
DpChoices == {5, 10, 20}
MvChoices == 2 .. 7
OccChoices == {45, 79}

\* no invocation of run_sim yet
NoFrame ==
    [years |-> 0, dp_pct |-> None, mv |-> None, occ |-> None, etf |-> 0, cash |-> 0,
     loan_bal |-> 0, results |-> << >>, ter_loan |-> 0, ter_pay |-> 0, yr |-> 1,
     target |-> "none", args |-> <<None, None, None>>]
NoBest == [ETF |-> NegInf]

---------------------------------------------------------------------------
(* Actions *)

Init ==
    /\ submitted = FALSE
    /\ inp = Defaults
    /\ der = [dp_user |-> 0, dp_dad |-> 0, loan |-> 0, m_payment |-> 0]
    /\ df = << >>
    /\ frame = NoFrame
    /\ pc = "idle"
    /\ nohelp = << >>
    /\ withhelp = << >>
    /\ best = NoBest
    /\ trials = << >>
    /\ opt = "off"

\* lines 80-88: the CSV override of core_exp
CoreAfterUpload(core_exp, uploaded) ==
    IF uploaded = NoFile \/ uploaded = BadFile THEN core_exp ELSE core_exp + uploaded

\* a call of run_sim begins: lines 96-104
Begin(target, years, dp_pct, mv, occ) ==
    /\ frame' = Enter(inp', der', years, dp_pct, mv, occ)
                  @@ [target |-> target, args |-> <<dp_pct, mv, occ>>]
    /\ pc' = "sim"

\* the form is submitted with the widgets' values: lines 78-94, then line 133
\* calls run_sim().  Every submission is a run of the script from its first
\* line, so a later submission is a behaviour of its own from Init.
Submit ==
    /\ pc = "idle"
    /\ \E so \in BOOLEAN, da \in DadAmts, du \in DadUses, my \in MoveYears,
          bt \in BOOLEAN, up \in Uploads :
         \E fy \in (IF bt THEN FlipYears ELSE {None}) :
            inp' = [Defaults EXCEPT !.sell_odessa = so, !.dad_amt = da, !.dad_use = du,
                       !.move_year = my,
                       !.core_exp = CoreAfterUpload(Defaults.core_exp, up),
                       !.build_ter = bt, !.flip_year = fy]
    /\ der' = Derive(inp')
    /\ submitted' = TRUE
    /\ df' = << >>
    /\ nohelp' = << >>
    /\ withhelp' = << >>
    /\ Begin("df", DefaultYears, None, None, None)
    /\ UNCHANGED <<best, trials, opt>>

\* run_sim is called with a horizon and overrides
Call ==
    /\ pc = "done"
    /\ UNCHANGED <<submitted, inp, der, df, nohelp, withhelp, best, trials, opt>>
    /\ \E years \in Horizons, dp_pct \in {None, 5, 20}, mv \in {None, 2},
          occ \in {None, 45} :
         Begin("call", years, dp_pct, mv, occ)

\* one iteration of run_sim's loop, lines 105-130
SimYear ==
    /\ pc = "sim"
    /\ frame.yr <= frame.years
    /\ frame' = Step(inp, der, frame)
    /\ UNCHANGED <<submitted, inp, der, df, pc, nohelp, withhelp, best, trials, opt>>

\* the loop is over: line 131, and line 133 for the call of line 133
Return ==
    /\ pc = "sim"
    /\ frame.yr > frame.years
    /\ pc' = "done"
    /\ df' = IF frame.target = "df" THEN frame.results ELSE df
    /\ UNCHANGED <<submitted, inp, der, frame, nohelp, withhelp, best, trials, opt>>

\* lines 150-156
Compare ==
    /\ pc = "done"
    /\ LET saved   == inp.dad_amt
           zeroed  == [inp EXCEPT !.dad_amt = 0]
           restored == [zeroed EXCEPT !.dad_amt = saved]
       IN  /\ nohelp' = run_sim(zeroed, der, DefaultYears, None, None, None)
           /\ withhelp' = run_sim(restored, der, DefaultYears, None, None, None)
           /\ inp' = restored
    /\ UNCHANGED <<submitted, der, df, frame, pc, best, trials, opt>>

Next == Submit \/ Call \/ SimYear \/ Return \/ Compare

Spec == Init /\ [][Next]_vars

---------------------------------------------------------------------------
(* The optimiser, lines 138-147 *)

\* line 145: whether the trial replaces the best one
BetterOrEqual(net, b) == net >= b.ETF
Better(net, b) == net > b.ETF

\* the button is pressed: line 139
Optimise ==
    /\ pc = "done"
    /\ opt \in {"off", "shown"}
    /\ best' = NoBest
    /\ trials' = << >>
    /\ opt' = "loop"
    /\ UNCHANGED <<submitted, inp, der, df, frame, pc, nohelp, withhelp>>

\* one iteration of the loop, lines 141-146
Trial ==
    /\ opt = "loop"
    /\ Len(trials) < NumTrials
    /\ \E dp \in DpChoices, mv \in MvChoices, occ \in OccChoices :
         LET net == Last(run_sim(inp, der, DefaultYears, dp, mv, occ)).ETF
             t   == [dp |-> dp, mv |-> mv, occ |-> occ, ETF |-> net]
         IN  /\ trials' = Append(trials, t)
             /\ best' = IF Better(net, best) THEN t ELSE best
    /\ UNCHANGED <<submitted, inp, der, df, frame, pc, nohelp, withhelp, opt>>

\* the loop is over: line 147 reports best
Show ==
    /\ opt = "loop"
    /\ Len(trials) = NumTrials
    /\ opt' = "shown"
    /\ UNCHANGED <<submitted, inp, der, df, frame, pc, nohelp, withhelp, best, trials>>

\* the states in which line 133 has returned, for the inputs the optimiser is
\* checked with
OptInputs ==
    {[Defaults EXCEPT !.sell_odessa = so, !.dad_amt = 50000] : so \in BOOLEAN}

OptInit ==
    /\ submitted = TRUE
    /\ inp \in OptInputs
    /\ der = Derive(inp)
    /\ frame = Loop(inp, der, Enter(inp, der, DefaultYears, None, None, None))
                 @@ [target |-> "df", args |-> <<None, None, None>>]
    /\ df = frame.results
    /\ pc = "done"
    /\ nohelp = << >>
    /\ withhelp = << >>
    /\ best = NoBest
    /\ trials = << >>
    /\ opt = "off"

OptNext == Optimise \/ Trial \/ Show

OptSpec == OptInit /\ [][OptNext]_vars

---------------------------------------------------------------------------
(* Claims *)

\* a call of run_sim has returned and frame holds its locals
Returned == pc = "done"
\* the comparison has run
Compared == withhelp # << >>
\* the widget values with the contribution amount set to 0
NoDad == [inp EXCEPT !.dad_amt = 0]

\* C1: the down-payment fraction, relocation year and occupancy that decide a
\* projection's figures are the override values when supplied, the parameter
\* values otherwise: a call with overrides returns the projection of the
\* parameter set in which those three parameters have the overriding values
\* (loan principal and mortgage payment derived from that down-payment).
C1_OverridesDecide ==
    (Returned /\ frame.target = "call") =>
        LET eff == [inp EXCEPT
                      !.your_down_pct = IF frame.args[1] # None THEN frame.args[1] ELSE @,
                      !.move_year     = IF frame.args[2] # None THEN frame.args[2] ELSE @,
                      !.air_occ       = IF frame.args[3] # None THEN frame.args[3] ELSE @]
        IN  frame.results = run_sim(eff, Derive(eff), frame.years, None, None, None)

\* C1, the part the code satisfies: the same with no down-payment override
C1_MoveAndOccupancy ==
    (Returned /\ frame.target = "call" /\ frame.args[1] = None) => C1_OverridesDecide

\* C2: the comparison's two projections have equal length and are paired by
\* year; "No Dad" is the projection of the parameters with the contribution
\* set to 0 and "With Dad" the projection with it at its configured value.
C2_CompareRuns ==
    Compared =>
        /\ Len(nohelp) = Len(withhelp)
        /\ \A k \in 1 .. Len(nohelp) : nohelp[k].Year = k /\ withhelp[k].Year = k
        /\ nohelp = Project(NoDad)
        /\ withhelp = Project(inp)

\* C3: with a positive contribution the with-contribution balance of the final
\* year is at least the no-contribution balance of the final year, both for
\* the comparison's own "No Dad" column and for the projection of the
\* parameters with the contribution set to 0.
C3_DadNeverHurts ==
    (Compared /\ inp.dad_amt > 0) =>
        /\ Last(withhelp).ETF >= Last(nohelp).ETF
        /\ Last(withhelp).ETF >= Last(Project(NoDad)).ETF

C3_Witness ==
    /\ Compared
    /\ inp.dad_amt > 0
    /\ inp.dad_use = DP
    /\ Last(withhelp).ETF > Last(Project(NoDad)).ETF

\* C8: with a positive contribution destined to the investment account, year
\* 1's total income exceeds year 1's total income with a zero contribution by
\* the contribution amount, and no other year's income differs; destined to
\* the down-payment, no year's income differs.
C8_DadInYear1Income ==
    (df # << >> /\ inp.dad_amt > 0) =>
        \A k \in 1 .. Len(df) :
            df[k].Income = Project(NoDad)[k].Income
                           + (IF inp.dad_use = ETF /\ k = 1 THEN inp.dad_amt ELSE 0)

\* C4: the optimiser's result is one of the trials it sampled (down-payment in
\* {0.05, 0.10, 0.20}, relocation year in 2..7), its balance is the final-year
\* balance of the projection run with that trial's overrides, no sampled trial
\* scores higher, and it is the earliest trial with the maximum score.
C4_BestIsFirstMax ==
    opt = "shown" =>
        /\ \E k \in 1 .. Len(trials) :
              /\ best = trials[k]
              /\ \A j \in 1 .. Len(trials) : trials[j].ETF <= best.ETF
              /\ \A j \in 1 .. (k - 1) : trials[j].ETF < best.ETF
        /\ best.dp \in {5, 10, 20}
        /\ best.mv \in 2 .. 7
        /\ best.ETF = Last(run_sim(inp, der, 10, best.dp, best.mv, best.occ)).ETF

\* two different trials tie for the maximum and the first one is kept
C4_Witness ==
    /\ opt = "shown"
    /\ Len(trials) >= 2
    /\ best = trials[1]
    /\ \E j \in 2 .. Len(trials) : trials[j].ETF = best.ETF /\ trials[j] # best
    /\ inp.sell_odessa

\* the investable amount of row k of a projection: what the balance grew by on
\* top of the return on the previous balance
Investable(res, k) ==
    res[k].ETF - (LET prev == IF k = 1 THEN 0 ELSE res[k - 1].ETF
                  IN  prev + (prev * inp.etf_ret) \div 1000)

\* C5: in every year of every projection Surplus is income minus expenses
\* floored at 0, and 0 <= investable amount <= Surplus.
C5_InvestWithinSurplus ==
    \A k \in 1 .. Len(frame.results) :
        LET r == frame.results[k]
        IN  /\ r.Surplus = Max(0, r.Income - r.Expenses)
            /\ r.Surplus >= 0
            /\ 0 <= Investable(frame.results, k)
            /\ Investable(frame.results, k) <= r.Surplus

\* one projection with a year whose surplus is floored, a year whose reserve
\* takes the whole surplus, and a year that invests part of its surplus
C5_Witness ==
    /\ Returned
    /\ \E k \in 1 .. Len(frame.results) :
          frame.results[k].Income < frame.results[k].Expenses
    /\ \E k \in 1 .. Len(frame.results) :
          /\ 0 < Investable(frame.results, k)
          /\ Investable(frame.results, k) < frame.results[k].Surplus

\* C6: run_sim returns exactly H records whose Year fields are 1, 2, ..., H in
\* order, and a record is never altered once appended.
C6_Rows ==
    /\ [](\A k \in 1 .. Len(frame.results) : frame.results[k].Year = k)
    /\ [](Returned => Len(frame.results) = frame.years)
    /\ [][(pc = "sim" /\ frame' # frame) =>
             /\ Len(frame'.results) = Len(frame.results) + 1
             /\ SubSeq(frame'.results, 1, Len(frame.results)) = frame.results]_vars
    /\ [][(pc = "sim" /\ pc' = "done") =>
             /\ frame'.results = frame.results
             /\ (frame.target = "df" => df' = frame.results)]_vars

C6_Witness ==
    /\ Returned
    /\ frame.years = 10
    /\ Len(frame.results) = 10
    /\ frame.results[10].Year = 10
    /\ df = frame.results

\* a call of run_sim with the default horizon and no overrides
DefaultCall ==
    /\ frame.target = "call"
    /\ frame.years = 10
    /\ frame.args = <<None, None, None>>

\* C7: two calls of run_sim with identical parameters and no overrides return
\* identical projections whatever ran between them: a later default call, and
\* the comparison's "With Dad" run, return the projection of line 133; every
\* call starts from balance 0, pending cash 0 and the full construction loan;
\* no call and no comparison changes the parameters or the derived values.
C7_Deterministic ==
    /\ []((Returned /\ DefaultCall) => frame.results = df)
    /\ [](Compared => withhelp = df)
    /\ []((pc = "sim" /\ frame.results = << >>) =>
             /\ frame.etf = 0
             /\ frame.cash = 0
             /\ frame.ter_loan = (IF inp.build_ter THEN 50000 ELSE 0))
    /\ [][pc # "idle" => (inp' = inp /\ der' = der)]_vars

\* a default call returns after the comparison and after a call that ended with
\* the sale of year 6 (the frame of the default call is entered from that one's)
C7_Witness ==
    /\ Returned
    /\ DefaultCall
    /\ Compared
    /\ inp.sell_odessa
    /\ inp.dad_amt > 0
    /\ frame.results = df

\* what the sale of the first property yields: home price minus 95 % of the loan
SaleProceeds == inp.home_price - (der.loan * 95) \div 100

\* salary, rent and contribution of year k of the call in frame: total income
\* without the one-time cash events
Regular(k) ==
    LET f == [frame EXCEPT !.yr = k]
    IN  Income(inp, f) + Airbnb(inp, f) + DadTerm(inp, der, f)

\* C9: every one-time cash event is income of the year it occurs in: the
\* liquidation proceeds in the divest year, the sale proceeds of the first
\* property in year 6; the pending buffer is 0 at the end of every year.
C9_CashRealisedSameYear ==
    /\ frame.cash = 0
    /\ \A k \in 1 .. Len(frame.results) :
          frame.results[k].Income =
              Regular(k)
              + (IF inp.build_ter /\ k = inp.flip_year THEN 120000 ELSE 0)
              + (IF inp.sell_odessa /\ k = 6 THEN SaleProceeds ELSE 0)

\* C9, what the code does: the liquidation proceeds are income of the divest
\* year; the sale proceeds are in the buffer at the end of year 6 and income
\* of year 7, if the horizon has one.
C9_SaleRealisedNextYear ==
    /\ frame.cash = (IF inp.sell_odessa /\ frame.yr = 7 THEN SaleProceeds ELSE 0)
    /\ \A k \in 1 .. Len(frame.results) :
          frame.results[k].Income =
              Regular(k)
              + (IF inp.build_ter /\ k = inp.flip_year THEN 120000 ELSE 0)
              + (IF inp.sell_odessa /\ k = 7 THEN SaleProceeds ELSE 0)

\* the construction-loan repayment charged in row k: the expenses beyond living
\* costs and the mortgage
Repaid(res, k) ==
    res[k].Expenses - ((inp.core_exp + inp.utilities + inp.subs) * 12 + der.m_payment)

RECURSIVE RepaidUpTo(_, _)
RepaidUpTo(res, k) == IF k = 0 THEN 0 ELSE RepaidUpTo(res, k - 1) + Repaid(res, k)

\* the balance and the repayments of the call in frame, as C10 states them
C10_Balance ==
    LET cost == IF inp.build_ter THEN 50000 ELSE 0
        res  == frame.results
    IN  pc # "idle" =>
           /\ frame.ter_loan >= 0
           /\ frame.ter_loan = cost - RepaidUpTo(res, Len(res))
           /\ \A k \in 1 .. Len(res) :
                 Repaid(res, k) =
                    Min((50000 * 10) \div 15, cost - RepaidUpTo(res, k - 1))
           /\ (Len(res) >= 2 => (frame.ter_loan = 0 /\ RepaidUpTo(res, Len(res)) = cost))
           /\ \A k \in 1 .. Len(res) :
                 (cost - RepaidUpTo(res, k - 1) = 0) => Repaid(res, k) = 0

\* C10: each year's repayment is min(cost / 1.5, remaining balance), part of
\* that year's expenses and taken off the balance; the balance is never
\* negative, never increases, is 0 from the end of year 2; over a horizon of
\* 2 years or more the repayments sum to the cost; nothing is repaid once the
\* balance is 0, nor when the property is not built.
C10_ConstructionLoan ==
    /\ []C10_Balance
    /\ [][(pc = "sim" /\ pc' = "sim") => frame'.ter_loan <= frame.ter_loan]_vars

C10_Witness ==
    /\ Returned
    /\ inp.build_ter
    /\ Len(frame.results) >= 3
    /\ Repaid(frame.results, 1) = 33333
    /\ Repaid(frame.results, 2) = 16667
    /\ Repaid(frame.results, 3) = 0
    /\ frame.ter_loan = 0

=============================================================================
